---- MODULE Spec2Model ----
(***************************************************************************)
(* Model of here_travel_time/sensor.py: the HERE public-transport travel   *)
(* time sensor of Home Assistant.                                          *)
(*                                                                         *)
(* Python strings are sequences of one-character strings, so that split,   *)
(* startswith, "%s" formatting and the COORD_PATTERN match are computed    *)
(* character by character.  Floats are fixed-point numbers of tenths of a  *)
(* degree (521 is 52.1); the strings the model feeds in carry at most one  *)
(* fractional digit.                                                       *)
(*                                                                         *)
(* The variable last records the latest call of update (its inputs, the    *)
(* sensor before it and what it did) until call_returns clears it; the     *)
(* host and the clock move between calls, never inside one (the update is  *)
(* synchronous and the host serialises the calls to a sensor).             *)
(***************************************************************************)
EXTENDS Integers, Sequences, FiniteSets, TLC

(***************************************************************************)
(* Python values                                                           *)
(***************************************************************************)

\* None where a string is expected (never equal to a string: its one element
\* is not a character)
None == <<"<None>">>

\* None in the integer-valued _state (the host shows it as "unknown")
Unknown == -1

\* throttle[1] is None: the wrapped method never completed
Never == -1

Digits == <<"0", "1", "2", "3", "4", "5", "6", "7", "8", "9">>

IsDigit(c) == \E i \in 1..10 : Digits[i] = c

DigitVal(c) == (CHOOSE i \in 1..10 : Digits[i] = c) - 1

Abs(x) == IF x < 0 THEN -x ELSE x

\* str(n) of a natural number
RECURSIVE NatStr(_)
NatStr(n) == IF n < 10 THEN <<Digits[n + 1]>>
             ELSE NatStr(n \div 10) \o <<Digits[(n % 10) + 1]>>

\* int(s) of a run of digits
RECURSIVE NatVal(_)
NatVal(s) == IF s = <<>> THEN 0
             ELSE 10 * NatVal(SubSeq(s, 1, Len(s) - 1)) + DigitVal(s[Len(s)])

\* str(x) of a float x held in tenths: -52.1 is "-52.1", 4.0 is "4.0"
FloatStr(x) ==
    (IF x < 0 THEN <<"-">> ELSE <<>>)
        \o NatStr(Abs(x) \div 10) \o <<".">> \o <<Digits[(Abs(x) % 10) + 1]>>

\* s.find(c): index of the first c in s, 0 when there is none
IndexOf(s, c) ==
    IF \E i \in 1..Len(s) : s[i] = c
    THEN CHOOSE i \in 1..Len(s) : s[i] = c /\ \A j \in 1..(i - 1) : s[j] # c
    ELSE 0

\* s.split(c, 1)[0]
SplitFirst(s, c) ==
    IF IndexOf(s, c) = 0 THEN s ELSE SubSeq(s, 1, IndexOf(s, c) - 1)

\* s.startswith(p)
StartsWith(s, p) == Len(s) >= Len(p) /\ SubSeq(s, 1, Len(p)) = p

\* float(g) of a string digits[.digits], in tenths
FloatVal(g) ==
    IF IndexOf(g, ".") = 0 THEN 10 * NatVal(g)
    ELSE 10 * NatVal(SubSeq(g, 1, IndexOf(g, ".") - 1))
            + DigitVal(g[IndexOf(g, ".") + 1])

(***************************************************************************)
(* COORD_PATTERN = ([0-9]+(?:\.[0-9]+)?),([0-9]+(?:\.[0-9]+)?)             *)
(***************************************************************************)

\* length of the longest run of digits of s that starts at position i
RECURSIVE DigitRun(_, _)
DigitRun(s, i) ==
    IF i >= 1 /\ i <= Len(s) /\ IsDigit(s[i]) THEN 1 + DigitRun(s, i + 1) ELSE 0

\* [0-9]+(?:\.[0-9]+)? matched greedily at position i: the position after the
\* match, 0 when there is no match.  Backtracking into the group can not help
\* the comma that follows: a shorter match is followed by a digit or a dot.
NumberEnd(s, i) ==
    LET d == DigitRun(s, i)
        j == i + d
    IN  IF d = 0 THEN 0
        ELSE IF j <= Len(s) /\ s[j] = "." /\ DigitRun(s, j + 1) > 0
             THEN j + 1 + DigitRun(s, j + 1)
             ELSE j

\* the pattern with an optional sign in front of the latitude
COORD_PATTERN_match_signed(s) ==
    LET t == IF Len(s) > 0 /\ s[1] = "-" THEN Tail(s) ELSE s
        e1 == NumberEnd(t, 1)
    IN  /\ e1 # 0
        /\ e1 <= Len(t)
        /\ t[e1] = ","
        /\ NumberEnd(t, e1 + 1) # 0

\* COORD_PATTERN.match(s) is not None: re.match anchors the pattern at the
\* start of s only, text after the second number is not looked at
COORD_PATTERN_match(s) ==
    LET e1 == NumberEnd(s, 1)
    IN  /\ e1 # 0
        /\ e1 <= Len(s)
        /\ s[e1] = ","
        /\ NumberEnd(s, e1 + 1) # 0

\* m.group(1), m.group(2)
COORD_PATTERN_groups(s) ==
    LET e1 == NumberEnd(s, 1)
        e2 == NumberEnd(s, e1 + 1)
    IN  <<SubSeq(s, 1, e1 - 1), SubSeq(s, e1 + 1, e2 - 1)>>

\* a get_lat_long that never raises: no match reads as 0.0,0.0
get_lat_long_raises_never(string_value) == FALSE

\* get_lat_long raises (m is None, or string_value is None)
get_lat_long_raises(string_value) ==
    string_value = None \/ ~COORD_PATTERN_match(string_value)

\* get_lat_long(string_value) = (lat, long)
get_lat_long(string_value) ==
    LET g == COORD_PATTERN_groups(string_value)
    IN  [lat |-> FloatVal(g[1]), long |-> FloatVal(g[2])]

(***************************************************************************)
(* Program constants                                                       *)
(***************************************************************************)

\* MIN_TIME_BETWEEN_UPDATES = timedelta(minutes=5), in minutes
MIN_TIME_BETWEEN_UPDATES == 5

\* TRACKABLE_DOMAINS = ['device_tracker', 'sensor', 'zone']
TRACKABLE_DOMAINS ==
    { <<"d", "e", "v", "i", "c", "e", "_", "t", "r", "a", "c", "k", "e", "r">>,
      <<"s", "e", "n", "s", "o", "r">>,
      <<"z", "o", "n", "e">> }

(***************************************************************************)
(* The host: hass.states, a set of State objects with distinct entity ids  *)
(***************************************************************************)

\* hass.states.get(entity_id) found nothing
NoEntity == [entity_id |-> None, state |-> None, attributes |-> [k \in {} |-> 0]]

\* hass.states.get(entity_id)
states_get(states, entity_id) ==
    IF \E e \in states : e.entity_id = entity_id
    THEN CHOOSE e \in states : e.entity_id = entity_id
    ELSE NoEntity

\* State.domain: split_entity_id(entity_id)[0]
domain(entity) == SplitFirst(entity.entity_id, ".")

\* State.object_id
object_id(entity) ==
    SubSeq(entity.entity_id, IndexOf(entity.entity_id, ".") + 1,
           Len(entity.entity_id))

\* State.name: the friendly_name attribute, else the object id with its
\* underscores turned into spaces
name(entity) ==
    IF "friendly_name" \in DOMAIN entity.attributes
    THEN entity.attributes.friendly_name
    ELSE [i \in 1..Len(object_id(entity)) |->
             IF object_id(entity)[i] = "_" THEN " " ELSE object_id(entity)[i]]

\* homeassistant.helpers.location.has_location(state): a State whose latitude
\* and longitude attributes are numbers
has_location(entity) ==
    /\ entity # NoEntity
    /\ "latitude" \in DOMAIN entity.attributes
    /\ "longitude" \in DOMAIN entity.attributes

\* "%s" % attr.get(key): str of the float, "None" when the key is missing
attr_str(attr, key) ==
    IF key \in DOMAIN attr THEN FloatStr(attr[key]) ELSE <<"N", "o", "n", "e">>

\* _get_location_from_attributes(entity): "%s,%s" % (latitude, longitude)
_get_location_from_attributes(entity) ==
    attr_str(entity.attributes, "latitude") \o <<",">>
        \o attr_str(entity.attributes, "longitude")

\* the lookup with the zone of the entity's state tried before the entity's
\* own coordinates
_get_location_from_entity_zone_first(states, entity_id, valid) ==
    LET entity == states_get(states, entity_id)
        zone_entity == states_get(states, <<"z", "o", "n", "e", ".">> \o entity.state)
    IN  IF entity = NoEntity
        THEN [location |-> None, valid_api_connection |-> FALSE]
        ELSE IF has_location(zone_entity)
        THEN [location |-> _get_location_from_attributes(zone_entity),
              valid_api_connection |-> valid]
        ELSE IF has_location(entity)
        THEN [location |-> _get_location_from_attributes(entity),
              valid_api_connection |-> valid]
        ELSE IF StartsWith(entity_id, <<"s", "e", "n", "s", "o", "r", ".">>)
        THEN [location |-> entity.state, valid_api_connection |-> valid]
        ELSE [location |-> None, valid_api_connection |-> valid]

\* _get_location_from_entity(entity_id): the location it returns and
\* self.valid_api_connection after it, valid being the flag before it
_get_location_from_entity(states, entity_id, valid) ==
    LET entity == states_get(states, entity_id)
        zone_entity == states_get(states, <<"z", "o", "n", "e", ".">> \o entity.state)
    IN  IF entity = NoEntity
        THEN [location |-> None, valid_api_connection |-> FALSE]
        ELSE IF has_location(entity)
        THEN [location |-> _get_location_from_attributes(entity),
              valid_api_connection |-> valid]
        ELSE IF has_location(zone_entity)
        THEN [location |-> _get_location_from_attributes(zone_entity),
              valid_api_connection |-> valid]
        ELSE IF StartsWith(entity_id, <<"s", "e", "n", "s", "o", "r", ".">>)
        THEN [location |-> entity.state, valid_api_connection |-> valid]
        ELSE [location |-> None, valid_api_connection |-> valid]

\* _resolve_zone(friendly_name): the coordinates of the zone entity whose
\* name is friendly_name, else friendly_name itself (None stays None)
_resolve_zone(states, friendly_name) ==
    LET zones == {e \in states : domain(e) = <<"z", "o", "n", "e">> /\ name(e) = friendly_name}
    IN  IF zones # {}
        THEN _get_location_from_attributes(CHOOSE e \in zones : TRUE)
        ELSE friendly_name

(***************************************************************************)
(* The proximity gate                                                      *)
(***************************************************************************)

\* geopy.distance.vincenty(p, q).meters for points in tenths of a degree.
\* The geodesic itself is geopy's; the model stands it in by 11100 m for
\* every tenth of a degree of separation in latitude and in longitude, which
\* is 0 exactly for equal points and grows with the separation.
vincenty_meters(p, q) == 11100 * (Abs(p.lat - q.lat) + Abs(p.long - q.long))

\* the gate with <= for <
too_close_le(distance, min_distance) == distance <= min_distance

\* distance < self._min_distance
too_close(distance, min_distance) == distance < min_distance

(***************************************************************************)
(* The routing response                                                    *)
(***************************************************************************)

\* seconds that a designator of an ISO-8601 duration stands for
DesignatorSeconds(c, in_time) ==
    IF c = "W" THEN 604800
    ELSE IF c = "D" THEN 86400
    ELSE IF c = "H" THEN 3600
    ELSE IF c = "M" /\ in_time THEN 60
    ELSE 1

\* total seconds of the duration string s = P[nW][nD][T[nH][nM][nS]] read
\* from position i on, acc being the number read so far
RECURSIVE DurationSeconds(_, _, _, _)
DurationSeconds(s, i, in_time, acc) ==
    IF i > Len(s) THEN 0
    ELSE IF s[i] = "P" THEN DurationSeconds(s, i + 1, FALSE, 0)
    ELSE IF s[i] = "T" THEN DurationSeconds(s, i + 1, TRUE, 0)
    ELSE IF IsDigit(s[i])
         THEN DurationSeconds(s, i + 1, in_time, 10 * acc + DigitVal(s[i]))
    ELSE acc * DesignatorSeconds(s[i], in_time)
            + DurationSeconds(s, i + 1, in_time, 0)

\* isodate.parse_duration(s): a timedelta, normalised to days and seconds
\* with 0 <= seconds < 86400
parse_duration(s) ==
    [days |-> DurationSeconds(s, 1, FALSE, 0) \div 86400,
     seconds |-> DurationSeconds(s, 1, FALSE, 0) % 86400]

\* round(n / 60) of Python 3: to the nearest integer, a tie to the even one
round_div_60(n) ==
    LET q == n \div 60
        r == n % 60
    IN  IF r < 30 THEN q
        ELSE IF r > 30 THEN q + 1
        ELSE IF q % 2 = 0 THEN q ELSE q + 1

\* the response has the shape update reads a duration from
has_duration(d) ==
    ~ ( \/ "Res" \notin DOMAIN d
        \/ "Connections" \notin DOMAIN d.Res
        \/ "Connection" \notin DOMAIN d.Res.Connections
        \/ Len(d.Res.Connections.Connection) = 0
        \/ "duration" \notin DOMAIN d.Res.Connections.Connection[1] )

\* a response without a duration read as 0 minutes
response_state_zero(d) ==
    IF ~has_duration(d) THEN 0
    ELSE round_div_60(
             parse_duration(d.Res.Connections.Connection[1].duration).seconds)

\* the value update gives self._state for the response body d
response_state(d) ==
    IF ~has_duration(d) THEN Unknown
    ELSE round_div_60(
             parse_duration(d.Res.Connections.Connection[1].duration).seconds)

(***************************************************************************)
(* Throttle                                                                *)
(***************************************************************************)

\* a wrapper that drops no_throttle
Throttle_calls_unforced(no_throttle, age) ==
    age = Never \/ age > MIN_TIME_BETWEEN_UPDATES

\* Throttle's wrapper calls the method: force (no_throttle given, or the
\* method never completed) or utcnow() - throttle[1] > min_time.  age is
\* utcnow() - throttle[1] in minutes, Never when throttle[1] is None.
Throttle_calls(no_throttle, age) ==
    no_throttle \/ age = Never \/ age > MIN_TIME_BETWEEN_UPDATES

(***************************************************************************)
(* HereTravelTimeSensor.update, the body under the Throttle                *)
(***************************************************************************)

\* the guard with the origin forgotten
both_present_destination_only(origin, destination) == destination # None

\* both locations are there: the guard of the distance check and the request
both_present(origin, destination) == destination # None /\ origin # None

\* what one call of update did: self after it, and whether it raised, how
\* many requests it sent, the distance it computed (-1: none) and what the
\* entity lookups returned
result(s, outcome, raised, http, distance, o_location, d_location) ==
    [self |-> s, outcome |-> outcome, raised |-> raised, http |-> http,
     distance |-> distance, origin_location |-> o_location,
     destination_location |-> d_location]

\* lines 153-179: the request and the reading of its response
update_request(s, reply, distance, o_location, d_location) ==
    IF reply.error
    THEN result(s, "request_error", TRUE, 1, distance, o_location, d_location)
    ELSE result([s EXCEPT !._state = response_state(reply.json)],
                IF has_duration(reply.json) THEN "duration" ELSE "no_duration",
                FALSE, 1, distance, o_location, d_location)

\* lines 146-151: the distance and the gate
update_distance(s, reply, distance, o_location, d_location) ==
    IF too_close(distance, s._min_distance)
    THEN result([s EXCEPT !._state = Unknown], "too_close", FALSE, 0,
                distance, o_location, d_location)
    ELSE update_request(s, reply, distance, o_location, d_location)

\* lines 141-145: the guard and the parse of both locations
update_gate(s, reply, o_location, d_location) ==
    IF ~both_present(s._origin, s._destination)
    THEN result(s, "absent", FALSE, 0, -1, o_location, d_location)
    ELSE IF get_lat_long_raises(s._origin)
            \/ get_lat_long_raises(s._destination)
    THEN result(s, "parse_error", TRUE, 0, -1, o_location, d_location)
    ELSE update_distance(
             s, reply,
             vincenty_meters(get_lat_long(s._origin),
                             get_lat_long(s._destination)),
             o_location, d_location)

\* lines 138-139: both locations go through _resolve_zone and are stored
update_zones(self, states, reply, o_res, d_res) ==
    update_gate(
        [self EXCEPT !._destination = _resolve_zone(states, d_res.location),
                     !._origin = _resolve_zone(states, o_res.location),
                     !.valid_api_connection = d_res.valid_api_connection],
        reply, o_res.location, d_res.location)

\* lines 133-136: the destination entity is looked up
update_destination(self, states, reply, o_res) ==
    update_zones(
        self, states, reply, o_res,
        IF self._destination_entity_id # None
        THEN _get_location_from_entity(states, self._destination_entity_id,
                                       o_res.valid_api_connection)
        ELSE [location |-> self._destination,
              valid_api_connection |-> o_res.valid_api_connection])

\* update(self) with the host's states and the reply of the routing API
\* (reply.error: requests.get raises; else reply.json is the body); lines
\* 128-131: the origin entity is looked up
update(self, states, reply) ==
    update_destination(
        self, states, reply,
        IF self._origin_entity_id # None
        THEN _get_location_from_entity(states, self._origin_entity_id,
                                       self.valid_api_connection)
        ELSE [location |-> self._origin,
              valid_api_connection |-> self.valid_api_connection])

(***************************************************************************)
(* HereTravelTimeSensor.__init__ before its first update                   *)
(***************************************************************************)

\* origin.split('.', 1)[0] in TRACKABLE_DOMAINS
is_trackable(location) == SplitFirst(location, ".") \in TRACKABLE_DOMAINS

\* the attributes __init__ sets; an attribute it does not set is None here
\* (update assigns _origin and _destination before it reads them)
new_sensor(origin, destination, min_distance) ==
    [_state |-> Unknown,
     _min_distance |-> min_distance,
     valid_api_connection |-> TRUE,
     _origin_entity_id |-> IF is_trackable(origin) THEN origin ELSE None,
     _origin |-> IF is_trackable(origin) THEN None ELSE origin,
     _destination_entity_id |->
         IF is_trackable(destination) THEN destination ELSE None,
     _destination |-> IF is_trackable(destination) THEN None ELSE destination,
     entity_id |-> None]

\* run_setup without the check of valid_api_connection
registers_always(sensor) == TRUE

\* run_setup: if sensor.valid_api_connection: add_devices([sensor])
registers(sensor) == sensor.valid_api_connection

(***************************************************************************)
(* Inputs of the model                                                     *)
(***************************************************************************)

\* largest age of the throttle the model counts, in minutes
MaxAge == 6

CoordA == <<"5", "2", ".", "1", ",", "4", ".", "3">>
CoordB == <<"5", "2", ".", "2", ",", "4", ".", "3">>
CoordTail == <<"5", "2", ".", "2", ",", "4", ".", "3", ",", "9">>
Home == <<"H", "o", "m", "e">>
Work == <<"W", "o", "r", "k">>
ZoneHome == <<"z", "o", "n", "e", ".", "h", "o", "m", "e">>
Phone == <<"d", "e", "v", "i", "c", "e", "_", "t", "r", "a", "c", "k", "e", "r", ".", "p", "h", "o", "n", "e">>
Loc == <<"s", "e", "n", "s", "o", "r", ".", "l", "o", "c">>
SensorId == <<"s", "e", "n", "s", "o", "r", ".", "h", "e", "r", "e", "_", "p", "u", "b", "l", "i", "c", "_", "t", "r", "a", "n", "s", "p", "o", "r", "t">>
OtherId == <<"s", "e", "n", "s", "o", "r", ".", "o", "t", "h", "e", "r">>

\* CONF_ORIGIN, CONF_DESTINATION, CONF_MIN_DISTANCE (cv.positive_int: >= 0)
Configs ==
    { [origin |-> CoordA, destination |-> CoordA, min_distance |-> 100],
      [origin |-> CoordA, destination |-> CoordA, min_distance |-> 0],
      [origin |-> CoordA, destination |-> CoordB, min_distance |-> 11100],
      [origin |-> Home, destination |-> CoordB, min_distance |-> 100],
      [origin |-> Phone, destination |-> Home, min_distance |-> 100],
      [origin |-> Loc, destination |-> CoordA, min_distance |-> 100],
      [origin |-> CoordA, destination |-> Phone, min_distance |-> 100],
      [origin |-> Phone, destination |-> ZoneHome, min_distance |-> 100] }

Attributes(lat, long, friendly_name) ==
    [latitude |-> lat, longitude |-> long, friendly_name |-> friendly_name]

\* the State objects the host may hold for each entity id
EntityVariants ==
    { [entity_id |-> ZoneHome, state |-> <<"z", "o", "n", "i", "n", "g">>,
       attributes |-> Attributes(521, 43, Home)],
      [entity_id |-> ZoneHome, state |-> <<"z", "o", "n", "i", "n", "g">>,
       attributes |-> Attributes(531, 43, Home)],
      [entity_id |-> Phone, state |-> <<"h", "o", "m", "e">>,
       attributes |-> Attributes(521, 43, <<"P", "h", "o", "n", "e">>)],
      [entity_id |-> Phone, state |-> <<"n", "o", "t", "_", "h", "o", "m", "e">>,
       attributes |-> Attributes(-338, 1512, <<"P", "h", "o", "n", "e">>)],
      [entity_id |-> Phone, state |-> <<"h", "o", "m", "e">>,
       attributes |-> [friendly_name |-> <<"P", "h", "o", "n", "e">>]],
      [entity_id |-> Phone, state |-> <<"n", "o", "t", "_", "h", "o", "m", "e">>,
       attributes |-> [friendly_name |-> <<"P", "h", "o", "n", "e">>]],
      [entity_id |-> Loc, state |-> CoordB,
       attributes |-> [friendly_name |-> <<"L", "o", "c">>]],
      [entity_id |-> Loc, state |-> CoordTail,
       attributes |-> [friendly_name |-> <<"L", "o", "c">>]],
      [entity_id |-> Loc, state |-> Work,
       attributes |-> [friendly_name |-> <<"L", "o", "c">>]],
      [entity_id |-> Loc, state |-> <<"h", "o", "m", "e">>,
       attributes |-> [friendly_name |-> <<"L", "o", "c">>]] }

\* the entities of the host that the sensor of this configuration can read:
\* the zone and the entities the configuration names
Relevant(config) == {ZoneHome, config.origin, config.destination}

\* hass.states holds at most one State for an entity id
HostStates(config) ==
    { st \in SUBSET {e \in EntityVariants : e.entity_id \in Relevant(config)} :
        \A e1, e2 \in st : e1.entity_id = e2.entity_id => e1 = e2 }

\* response.json() bodies
Body(duration) ==
    [Res |-> [Connections |-> [Connection |-> <<[duration |-> duration]>>]]]

Bodies ==
    { [Message |-> 0],
      [Res |-> [Message |-> 0]],
      [Res |-> [Connections |-> [valid_until |-> 0]]],
      [Res |-> [Connections |-> [Connection |-> <<>>]]],
      [Res |-> [Connections |-> [Connection |-> <<[id |-> 0]>>]]],
      Body(<<"P", "T", "2", "5", "M">>),
      Body(<<"P", "T", "9", "0", "S">>),
      Body(<<"P", "1", "D", "T", "1", "H">>) }

\* what req.get does: it raises (error), or returns a response with a body
Replies ==
    {[error |-> TRUE, json |-> [Message |-> 0]]}
        \cup {[error |-> FALSE, json |-> d] : d \in Bodies}

\* entity_id of the service call: service.data.get('entity_id')
ServiceEntityIds == {None, SensorId, OtherId}

(***************************************************************************)
(* State                                                                   *)
(***************************************************************************)

VARIABLES
    pc,        \* "start" before EVENT_HOMEASSISTANT_START, then "running"
    config,    \* the platform configuration
    states,    \* hass.states
    data,      \* hass.data[DATA_KEY]: the sensors run_setup appended
    added,     \* number of add_devices([sensor]) calls
    self,      \* the HereTravelTimeSensor
    throttle,  \* utcnow() - throttle[1] of update's Throttle, or Never
    last       \* the latest call of update and what it did

vars == <<pc, config, states, data, added, self, throttle, last>>

\* no sensor yet
NoSensor == [new_sensor(None, None, 0) EXCEPT !.valid_api_connection = FALSE]

\* no call of update since the host or the clock moved
Idle ==
    [op |-> "none", no_throttle |-> FALSE, called |-> FALSE, age |-> Never,
     before |-> NoSensor, reply |-> [error |-> FALSE, json |-> [Message |-> 0]],
     outcome |-> "none", raised |-> FALSE, http |-> 0, distance |-> -1,
     origin_location |-> None, destination_location |-> None]

Init ==
    /\ pc = "start"
    /\ config \in Configs
    /\ states \in HostStates(config)
    /\ data = <<>>
    /\ added = 0
    /\ self = NoSensor
    /\ throttle = Never
    /\ last = Idle

\* the record of a call that ran update with the result r
call_record(op, s, age, no_throttle, reply, r) ==
    [op |-> op, no_throttle |-> no_throttle, called |-> TRUE, age |-> age,
     before |-> s, reply |-> IF r.http > 0 THEN reply ELSE Idle.reply,
     outcome |-> r.outcome, raised |-> r.raised, http |-> r.http,
     distance |-> r.distance, origin_location |-> r.origin_location,
     destination_location |-> r.destination_location]

\* the wrapper called update and got r: throttle[1] = utcnow() unless update
\* raised
throttle_called(op, s, age, no_throttle, reply, r) ==
    [self |-> r.self,
     throttle |-> IF r.raised THEN age ELSE 0,
     last |-> call_record(op, s, age, no_throttle, reply, r)]

\* the Throttle wrapper around update: one call of sensor.update(...) on the
\* sensor s with the throttle at age.  The result is the sensor and the age
\* after the call and the record of the call.
throttled_update(op, s, age, no_throttle, reply) ==
    IF Throttle_calls(no_throttle, age)
    THEN throttle_called(op, s, age, no_throttle, reply,
                         update(s, states, reply))
    ELSE [self |-> s,
          throttle |-> age,
          last |-> [Idle EXCEPT !.op = op, !.no_throttle = no_throttle,
                                !.age = age, !.before = s,
                                !.outcome = "throttled"]]

\* the replies one call of update can meet: the routing API answers only a
\* call that sends the request
RepliesTo(s, age, no_throttle) ==
    IF Throttle_calls(no_throttle, age) /\ update(s, states, Idle.reply).http > 0
    THEN Replies
    ELSE {Idle.reply}

\* __init__, lines 102-106: an exception of the first update clears the flag
after_first_update(s, raised) ==
    IF raised THEN [s EXCEPT !.valid_api_connection = FALSE] ELSE s

\* run_setup, lines 63-66: the sensor is appended to hass.data[DATA_KEY] and
\* is added to the host, which names it, if its connection is valid
add_sensor(sensor, r) ==
    /\ data' = Append(data, "sensor")
    /\ added' = IF registers(sensor) THEN added + 1 ELSE added
    /\ self' = IF registers(sensor)
               THEN [sensor EXCEPT !.entity_id = SensorId]
               ELSE sensor
    /\ throttle' = r.throttle
    /\ last' = r.last

\* run_setup(event): build the sensor (its __init__ runs the first update
\* inside try/except), append it to hass.data[DATA_KEY], and add it to the
\* host if its connection is valid
add_sensor_after(r) ==
    add_sensor(after_first_update(r.self, r.last.raised), r)

construct(s0) ==
    \E reply \in RepliesTo(s0, throttle, FALSE) :
        add_sensor_after(throttled_update("init", s0, throttle, FALSE, reply))

run_setup ==
    /\ pc = "start"
    /\ construct(new_sensor(config.origin, config.destination,
                            config.min_distance))
    /\ pc' = "running"
    /\ UNCHANGED <<config, states>>

\* the sensor, its throttle and the record of the call after the call r
returns(r) ==
    /\ self' = r.self
    /\ throttle' = r.throttle
    /\ last' = r.last

\* the host polls an entity it was given: sensor.update()
scheduled_update ==
    /\ pc = "running"
    /\ last.op = "none"
    /\ added > 0
    /\ \E reply \in RepliesTo(self, throttle, FALSE) :
        returns(throttled_update("update", self, throttle, FALSE, reply))
    /\ UNCHANGED <<pc, config, states, data, added>>

\* the here_travel_sensor_update service: update(service)
service_update ==
    /\ pc = "running"
    /\ last.op = "none"
    /\ \E entity_id \in ServiceEntityIds :
        IF Len(data) > 0 /\ self.entity_id = entity_id
        THEN \E reply \in RepliesTo(self, throttle, TRUE) :
                returns(throttled_update("service", self, throttle, TRUE,
                                         reply))
        ELSE UNCHANGED <<self, throttle, last>>
    /\ UNCHANGED <<pc, config, states, data, added>>

\* the call of update is over: the host has taken its result or its exception
call_returns ==
    /\ last.op # "none"
    /\ last' = Idle
    /\ UNCHANGED <<pc, config, states, data, added, self, throttle>>

\* a minute passes
tick ==
    /\ last.op = "none"
    /\ throttle # Never
    /\ throttle < MaxAge
    /\ throttle' = throttle + 1
    /\ UNCHANGED <<pc, config, states, data, added, self, last>>

\* the host sets the state of an entity
state_set ==
    /\ last.op = "none"
    /\ \E e \in EntityVariants :
        /\ e.entity_id \in Relevant(config)
        /\ e \notin states
        /\ states' = {o \in states : o.entity_id # e.entity_id} \cup {e}
    /\ UNCHANGED <<pc, config, data, added, self, throttle, last>>

\* the host removes an entity
state_remove ==
    /\ last.op = "none"
    /\ \E e \in states : states' = states \ {e}
    /\ UNCHANGED <<pc, config, data, added, self, throttle, last>>

Next ==
    \/ run_setup
    \/ scheduled_update
    \/ service_update
    \/ call_returns
    \/ tick
    \/ state_set
    \/ state_remove

Spec == Init /\ [][Next]_vars

(***************************************************************************)
(* The vocabulary of the properties                                        *)
(***************************************************************************)

\* the work of update ran in the call that has just returned
Updated == last.op # "none" /\ last.called

\* the locations update resolved in that call
Origin == self._origin
Destination == self._destination

Present(location) == location # None

\* a number of the coordinate grammar: digits[.digits]
IsNumber(t) ==
    /\ Len(t) > 0
    /\ IsDigit(t[1])
    /\ IsDigit(t[Len(t)])
    /\ \A i \in 1..Len(t) : IsDigit(t[i]) \/ t[i] = "."
    /\ Cardinality({i \in 1..Len(t) : t[i] = "."}) <= 1

\* the whole of s is digits[.digits],digits[.digits]
MatchesGrammar(s) ==
    \E i \in 1..Len(s) :
        /\ s[i] = ","
        /\ IsNumber(SubSeq(s, 1, i - 1))
        /\ IsNumber(SubSeq(s, i + 1, Len(s)))

\* s begins with digits[.digits],digits[.digits]
BeginsWithCoordinates(s) ==
    \E k \in 1..Len(s) : MatchesGrammar(SubSeq(s, 1, k))

\* the distance between two parsable locations
Distance(origin, destination) ==
    vincenty_meters(get_lat_long(origin), get_lat_long(destination))

\* the request was sent and answered with the body last.reply.json
Answered == Updated /\ last.http = 1 /\ ~last.reply.error

\* the body lacks Res, Res.Connections or Res.Connections.Connection, or its
\* connection list is empty, or its first connection has no duration
LacksDuration(d) ==
    \/ "Res" \notin DOMAIN d
    \/ "Connections" \notin DOMAIN d.Res
    \/ "Connection" \notin DOMAIN d.Res.Connections
    \/ d.Res.Connections.Connection = <<>>
    \/ "duration" \notin DOMAIN d.Res.Connections.Connection[1]

\* the reference is an entity reference and hass.states has no such entity
MissingEntity(entity_id) ==
    entity_id # None /\ \A e \in states : e.entity_id # entity_id

(***************************************************************************)
(* C1                                                                      *)
(***************************************************************************)

\* C1: in an update that ran with both locations resolved to parsable
\* "lat,long" pairs, the update is gated exactly when the distance is
\* strictly below minimum_distance: gated, the state is Unknown and no
\* request was sent; at or above the threshold (a threshold of 0 included)
\* exactly one request was sent.
C1_ProximityGate ==
    ( /\ Updated
      /\ Present(Origin) /\ Present(Destination)
      /\ BeginsWithCoordinates(Origin) /\ BeginsWithCoordinates(Destination) )
    => IF Distance(Origin, Destination) < self._min_distance
       THEN self._state = Unknown /\ last.http = 0 /\ ~last.raised
       ELSE last.http = 1

\* an update is gated while the sensor showed a number of minutes
C1_Witness ==
    /\ Updated
    /\ BeginsWithCoordinates(Origin) /\ BeginsWithCoordinates(Destination)
    /\ Distance(Origin, Destination) < self._min_distance
    /\ last.before._state # Unknown
    /\ self._state = Unknown

(***************************************************************************)
(* C2                                                                      *)
(***************************************************************************)

\* C2: for a response whose body lacks Res, Res.Connections or
\* Res.Connections.Connection, or has an empty connection list, or a first
\* connection without duration, the update raises nothing and leaves the
\* state Unknown, whatever it was before.
C2_MalformedResponse ==
    (Answered /\ LacksDuration(last.reply.json))
    => ~last.raised /\ self._state = Unknown

\* a response with an empty connection list reaches a sensor that showed a
\* number of minutes
C2_Witness ==
    /\ Answered
    /\ "Res" \in DOMAIN last.reply.json
    /\ "Connections" \in DOMAIN last.reply.json.Res
    /\ "Connection" \in DOMAIN last.reply.json.Res.Connections
    /\ last.reply.json.Res.Connections.Connection = <<>>
    /\ last.before._state # Unknown

(***************************************************************************)
(* C3                                                                      *)
(***************************************************************************)

\* the first update raised, or a reference it resolved names no entity
FirstUpdateFailed ==
    \/ last.raised
    \/ MissingEntity(self._origin_entity_id)
    \/ MissingEntity(self._destination_entity_id)

\* C3: if the first update raises, or an entity reference resolved in it
\* names an entity that does not exist, setup still completes, the
\* connectivity flag is false and the sensor is not registered, at setup or
\* after any later call; otherwise it is registered exactly once, at setup.
C3_Registration ==
    /\ [](last.op = "init"
            => /\ pc = "running"
               /\ IF FirstUpdateFailed
                  THEN ~self.valid_api_connection /\ added = 0
                  ELSE added = 1)
    /\ [][pc = "running"
            => /\ added' = added
               /\ (~self.valid_api_connection => ~self'.valid_api_connection)
         ]_vars

\* a sensor that was not registered at setup gets a duration from a later
\* forced update and is still not registered
C3_Witness ==
    /\ pc = "running"
    /\ added = 0
    /\ last.op = "service"
    /\ Answered
    /\ self._state # Unknown

(***************************************************************************)
(* C4                                                                      *)
(***************************************************************************)

\* C4: a call that is not forced and comes less than 5 minutes after the
\* last completed run resolves nothing, sends nothing and changes nothing; a
\* forced call always runs; the first update, at construction, always runs.
C4_Throttle ==
    /\ (last.op # "none" /\ ~last.no_throttle
          /\ last.age # Never /\ last.age < 5)
       => /\ ~last.called
          /\ last.http = 0
          /\ self = last.before
          /\ throttle = last.age
    /\ (last.op # "none" /\ last.no_throttle) => last.called
    /\ last.op = "init" => last.called

\* a scheduled update is skipped 4 minutes after a run
C4_Witness ==
    /\ last.op = "update"
    /\ last.age = 4
    /\ ~last.called

(***************************************************************************)
(* C5                                                                      *)
(***************************************************************************)

\* C5: in an update in which the resolved origin or destination is absent,
\* no distance is computed, no request is sent, nothing is raised and the
\* state stays what it was.
C5_AbsentLocation ==
    (Updated /\ (~Present(Origin) \/ ~Present(Destination)))
    => /\ last.distance = -1
       /\ last.http = 0
       /\ ~last.raised
       /\ self._state = last.before._state

\* the referenced entity exists but gives no location, and the sensor keeps
\* the minutes it showed
C5_Witness ==
    /\ Updated
    /\ ~Present(Origin)
    /\ ~MissingEntity(self._origin_entity_id)
    /\ last.before._state # Unknown
    /\ self._state = last.before._state

(***************************************************************************)
(* C6                                                                      *)
(***************************************************************************)

\* resolution failed, or the parse in the gate failed, or the shape check
\* of the response failed
ResolutionFailed == Updated /\ (~Present(Origin) \/ ~Present(Destination))

GateParseFailed ==
    /\ Updated
    /\ Present(Origin) /\ Present(Destination)
    /\ (~BeginsWithCoordinates(Origin) \/ ~BeginsWithCoordinates(Destination))

ShapeCheckFailed == Answered /\ LacksDuration(last.reply.json)

\* C6 as stated: after an update in which resolution, the parse in the gate
\* or the shape check of the response fails, the state is Unknown.
C6_UnknownAfterFailure ==
    (ResolutionFailed \/ GateParseFailed \/ ShapeCheckFailed)
    => self._state = Unknown

\* C6 as amended: after a failed shape check the state is Unknown; after a
\* failed resolution or a failed parse in the gate the state is what it was
\* before the update.
C6_StateAfterFailure ==
    /\ ShapeCheckFailed => self._state = Unknown
    /\ (ResolutionFailed \/ GateParseFailed)
       => self._state = last.before._state

\* the referenced entity is gone and the sensor keeps showing the minutes of
\* an earlier update
C6_Witness ==
    /\ ResolutionFailed
    /\ MissingEntity(self._origin_entity_id)
    /\ last.before._state # Unknown
    /\ self._state # Unknown

(***************************************************************************)
(* C7                                                                      *)
(***************************************************************************)

\* C7 as stated: with both locations present and one of them not matching
\* digits[.digits],digits[.digits], the update raises, sends no request and
\* leaves the state as it was.
C7_ParseErrorPropagates ==
    ( /\ Updated
      /\ Present(Origin) /\ Present(Destination)
      /\ (~MatchesGrammar(Origin) \/ ~MatchesGrammar(Destination)) )
    => /\ last.raised
       /\ last.http = 0
       /\ self._state = last.before._state

\* C7 as amended: with both locations present and one of them not beginning
\* with digits[.digits],digits[.digits], the update raises, sends no request
\* and leaves the state as it was.
C7_ParseErrorOfPrefix ==
    GateParseFailed
    => /\ last.raised
       /\ last.http = 0
       /\ self._state = last.before._state

\* a signed coordinate makes the update raise
C7_Witness ==
    /\ GateParseFailed
    /\ Origin[1] = "-"
    /\ last.raised

(***************************************************************************)
(* C8                                                                      *)
(***************************************************************************)

\* C8: for a well-formed response the state is the total length of the
\* duration in seconds, divided by 60 and rounded to the nearest integer
\* (durations of a day or more included); after an update that completes the
\* state is None or a non-negative number of minutes.
C8_MinutesOfDuration ==
    /\ (Answered /\ ~LacksDuration(last.reply.json))
       => LET total == DurationSeconds(
                  last.reply.json.Res.Connections.Connection[1].duration,
                  1, FALSE, 0)
          IN  2 * Abs(60 * self._state - total) <= 60
    /\ (last.op # "none" /\ ~last.raised)
       => (self._state = Unknown \/ self._state >= 0)

(***************************************************************************)
(* C9                                                                      *)
(***************************************************************************)

\* the priority of C9 for the entity reference entity_id that resolved to
\* location; last_resort says what holds when nothing gave a location
Priority(entity_id, location, last_resort) ==
    LET entity == states_get(states, entity_id)
        zone == states_get(states, <<"z", "o", "n", "e", ".">> \o entity.state)
        coordinates(e) ==
            {"latitude", "longitude"} \subseteq DOMAIN e.attributes
    IN  IF MissingEntity(entity_id)
        THEN location = None /\ ~self.valid_api_connection
        ELSE IF coordinates(entity)
        THEN location = _get_location_from_attributes(entity)
        ELSE IF zone # NoEntity /\ coordinates(zone)
        THEN location = _get_location_from_attributes(zone)
        ELSE IF SubSeq(entity_id, 1, 7) = <<"s", "e", "n", "s", "o", "r", ".">>
        THEN location = entity.state
        ELSE location = None /\ last_resort

\* C9 as stated: a missing entity gives no location and a false flag; else
\* the entity's coordinates; else the coordinates of the zone its state
\* names; else, for a "sensor." entity, its raw state; otherwise no location
\* and a false flag.
C9_ResolutionPriority ==
    Updated
    => /\ self._origin_entity_id # None
          => Priority(self._origin_entity_id, last.origin_location,
                      ~self.valid_api_connection)
       /\ self._destination_entity_id # None
          => Priority(self._destination_entity_id, last.destination_location,
                      ~self.valid_api_connection)

\* C9 as amended: the same priority, but the last case gives no location and
\* leaves the flag as it was (it is false after the update only if it was
\* false before or the other reference names a missing entity).
C9_ResolutionPriorityFlagKept ==
    Updated
    => /\ self._origin_entity_id # None
          => Priority(self._origin_entity_id, last.origin_location,
                      MissingEntity(self._destination_entity_id)
                          \/ self.valid_api_connection
                                 = last.before.valid_api_connection)
       /\ self._destination_entity_id # None
          => Priority(self._destination_entity_id, last.destination_location,
                      MissingEntity(self._origin_entity_id)
                          \/ self.valid_api_connection
                                 = last.before.valid_api_connection)

\* a tracker that exists, has no coordinates, is in no known zone and is no
\* sensor resolves to nothing, and the flag stays true
C9_Witness ==
    /\ Updated
    /\ self._origin_entity_id # None
    /\ ~MissingEntity(self._origin_entity_id)
    /\ last.origin_location = None
    /\ self.valid_api_connection

(***************************************************************************)
(* C10                                                                     *)
(***************************************************************************)

\* C10: a static reference stays the configured string, so every update
\* resolves it against the zones as they are at that update.
C10_StaticReferenceImmutable ==
    Updated
    => /\ ~is_trackable(config.origin)
          => Origin = _resolve_zone(states, config.origin)
       /\ ~is_trackable(config.destination)
          => Destination = _resolve_zone(states, config.destination)

====
